---------------------------- MODULE Spec2Model ----------------------------
(***************************************************************************)
(* reposcribe: the ignore-rule list, the gitignore matcher and the         *)
(* directory walk of src/reposcribe/core.py, driven by main() of           *)
(* src/reposcribe/cli.py.                                                  *)
(*                                                                         *)
(* A Python str is a sequence of one-character strings, so that strip,     *)
(* splitlines, split("/"), glob matching and the code-point order used by  *)
(* sorted() are computed and not assumed.                                  *)
(***************************************************************************)
EXTENDS Integers, Sequences, FiniteSets, TLC

(***************************************************************************)
(* Bounds of the model.                                                    *)
(***************************************************************************)
MaxUserLines == 2      \* lines of the user's .gitignore
MaxUnreadable == 1     \* directories whose scandir fails during one walk
MaxCalls == 2          \* calls of find_exportable_files on one tree

(***************************************************************************)
(* Characters and strings.                                                 *)
(***************************************************************************)
\* ord(c) for the characters of the model's alphabet
Ord ==
      "\n" :> 10 @@ " " :> 32 @@ "!" :> 33 @@ "#" :> 35 @@ "*" :> 42 @@ "-" :> 45 @@
      "." :> 46 @@ "/" :> 47 @@ "0" :> 48 @@ "1" :> 49 @@ "2" :> 50 @@ "3" :> 51 @@
      "4" :> 52 @@ "5" :> 53 @@ "6" :> 54 @@ "7" :> 55 @@ "8" :> 56 @@ "9" :> 57 @@
      "A" :> 65 @@ "B" :> 66 @@ "C" :> 67 @@ "D" :> 68 @@ "E" :> 69 @@ "F" :> 70 @@
      "G" :> 71 @@ "H" :> 72 @@ "I" :> 73 @@ "J" :> 74 @@ "K" :> 75 @@ "L" :> 76 @@
      "M" :> 77 @@ "N" :> 78 @@ "O" :> 79 @@ "P" :> 80 @@ "Q" :> 81 @@ "R" :> 82 @@
      "S" :> 83 @@ "T" :> 84 @@ "U" :> 85 @@ "V" :> 86 @@ "W" :> 87 @@ "X" :> 88 @@
      "Y" :> 89 @@ "Z" :> 90 @@ "_" :> 95 @@ "a" :> 97 @@ "b" :> 98 @@ "c" :> 99 @@
      "d" :> 100 @@ "e" :> 101 @@ "f" :> 102 @@ "g" :> 103 @@ "h" :> 104 @@ "i" :> 105 @@
      "j" :> 106 @@ "k" :> 107 @@ "l" :> 108 @@ "m" :> 109 @@ "n" :> 110 @@ "o" :> 111 @@
      "p" :> 112 @@ "q" :> 113 @@ "r" :> 114 @@ "s" :> 115 @@ "t" :> 116 @@ "u" :> 117 @@
      "v" :> 118 @@ "w" :> 119 @@ "x" :> 120 @@ "y" :> 121 @@ "z" :> 122

\* the characters str.strip() removes (those of them the alphabet has)
Whitespace == {" ", "\n"}

RECURSIVE StrLess(_, _)
\* Python's s < t on str: lexicographic by code point, a proper prefix first
StrLess(s, t) ==
  IF t = <<>> THEN FALSE
  ELSE IF s = <<>> THEN TRUE
  ELSE IF Ord[Head(s)] # Ord[Head(t)] THEN Ord[Head(s)] < Ord[Head(t)]
  ELSE StrLess(Tail(s), Tail(t))

RECURSIVE LStrip(_)
LStrip(s) == IF s # <<>> /\ Head(s) \in Whitespace THEN LStrip(Tail(s)) ELSE s

RECURSIVE RStrip(_)
RStrip(s) ==
  IF s # <<>> /\ s[Len(s)] \in Whitespace THEN RStrip(SubSeq(s, 1, Len(s) - 1)) ELSE s

\* str.strip()
Strip(s) == RStrip(LStrip(s))

\* str.startswith(c) for a one-character prefix
StartsWith(s, c) == s # <<>> /\ Head(s) = c

RECURSIVE SplitFrom(_, _, _, _)
\* the pieces of s between occurrences of sep, cur being the piece under way
SplitFrom(s, sep, cur, acc) ==
  IF s = <<>> THEN Append(acc, cur)
  ELSE IF Head(s) = sep THEN SplitFrom(Tail(s), sep, <<>>, Append(acc, cur))
  ELSE SplitFrom(Tail(s), sep, Append(cur, Head(s)), acc)

\* str.split(sep): always at least one piece, empty pieces kept
Split(s, sep) == SplitFrom(s, sep, <<>>, <<>>)

\* str.splitlines(): like split("\n"), without the empty piece after a final newline
Splitlines(s) ==
  LET parts == Split(s, "\n")
  IN IF parts[Len(parts)] = <<>> THEN SubSeq(parts, 1, Len(parts) - 1) ELSE parts

RECURSIVE Join(_, _)
\* sep.join(parts)
Join(parts, sep) ==
  IF parts = <<>> THEN <<>>
  ELSE IF Len(parts) = 1 THEN parts[1]
  ELSE parts[1] \o <<sep>> \o Join(Tail(parts), sep)

RECURSIVE InsertSorted(_, _)
InsertSorted(x, sorted_seq) ==
  IF sorted_seq = <<>> THEN <<x>>
  ELSE IF StrLess(x, Head(sorted_seq)) THEN <<x>> \o sorted_seq
  ELSE <<Head(sorted_seq)>> \o InsertSorted(x, Tail(sorted_seq))

RECURSIVE SortedFrom(_, _)
SortedFrom(seq, acc) ==
  IF seq = <<>> THEN acc ELSE SortedFrom(Tail(seq), InsertSorted(Head(seq), acc))

\* mutant: the list is returned in the order the files were found
sorted_not(seq) == seq

\* sorted(list of str): ascending, stable
sorted(seq) == SortedFrom(seq, <<>>)

\* the sequences over S of length at most n
SeqUpTo(S, n) == UNION {[1..k -> S] : k \in 0..n}

Range(seq) == {seq[i] : i \in DOMAIN seq}

(***************************************************************************)
(* core.py: the built-in ignore list.                                      *)
(***************************************************************************)
DefaultPatterns ==
   <<
      <<".","g","i","t","/">>,
      <<".","h","g","/">>,
      <<".","s","v","n","/">>,
      <<".","b","z","r","/">>,
      <<".","g","i","t","i","g","n","o","r","e">>,
      <<"p","a","c","k","a","g","e","-","l","o","c","k",".","j","s","o","n">>,
      <<"y","a","r","n",".","l","o","c","k">>,
      <<"p","n","p","m","-","l","o","c","k",".","y","a","m","l">>,
      <<"p","o","e","t","r","y",".","l","o","c","k">>,
      <<"P","i","p","f","i","l","e",".","l","o","c","k">>,
      <<"c","o","m","p","o","s","e","r",".","l","o","c","k">>,
      <<"G","e","m","f","i","l","e",".","l","o","c","k">>,
      <<"C","a","r","g","o",".","l","o","c","k">>,
      <<"g","o",".","s","u","m">>,
      <<"*",".","p","y","c">>,
      <<"_","_","p","y","c","a","c","h","e","_","_","/">>,
      <<"*",".","c","l","a","s","s">>,
      <<"*",".","j","a","r">>,
      <<"*",".","w","a","r">>,
      <<"*",".","e","a","r">>,
      <<"*",".","o">>,
      <<"*",".","a">>,
      <<"*",".","s","o">>,
      <<"*",".","d","y","l","i","b">>,
      <<"*",".","d","l","l">>,
      <<"*",".","e","x","e">>,
      <<"*",".","w","a","s","m">>,
      <<"*",".","e","l","c">>,
      <<"b","u","i","l","d","/">>,
      <<"d","i","s","t","/">>,
      <<"t","a","r","g","e","t","/">>,
      <<"b","i","n","/">>,
      <<"o","b","j","/">>,
      <<"o","u","t","/">>,
      <<"p","u","b","l","i","c","/","b","u","i","l","d","/">>,
      <<".","n","e","x","t","/">>,
      <<".","n","u","x","t","/">>,
      <<".","s","v","e","l","t","e","-","k","i","t","/">>,
      <<".","v","e","r","c","e","l","/">>,
      <<".","s","e","r","v","e","r","l","e","s","s","/">>,
      <<".","t","e","r","r","a","f","o","r","m","/">>,
      <<".","e","n","v">>,
      <<".","e","n","v",".","*">>,
      <<".","v","e","n","v","/">>,
      <<"v","e","n","v","/">>,
      <<"e","n","v","/">>,
      <<".","e","n","v","/">>,
      <<".","i","d","e","a","/">>,
      <<".","v","s","c","o","d","e","/">>,
      <<"*",".","s","u","b","l","i","m","e","-","*">>,
      <<".","p","r","o","j","e","c","t">>,
      <<".","s","e","t","t","i","n","g","s","/">>,
      <<".","c","l","a","s","s","p","a","t","h">>,
      <<"*",".","s","w","p">>,
      <<"*",".","s","w","o">>,
      <<".","D","S","_","S","t","o","r","e">>,
      <<"T","h","u","m","b","s",".","d","b">>,
      <<"*",".","l","o","g">>,
      <<"c","o","v","e","r","a","g","e","/">>,
      <<".","c","o","v","e","r","a","g","e">>,
      <<"h","t","m","l","c","o","v","/">>,
      <<"*",".","l","c","o","v">>,
      <<"n","o","s","e","t","e","s","t","s",".","x","m","l">>,
      <<"p","y","t","e","s","t",".","x","m","l">>,
      <<".","p","y","t","e","s","t","_","c","a","c","h","e","/">>,
      <<"*",".","p","n","g">>,
      <<"*",".","j","p","g">>,
      <<"*",".","j","p","e","g">>,
      <<"*",".","g","i","f">>,
      <<"*",".","b","m","p">>,
      <<"*",".","t","i","f","f">>,
      <<"*",".","w","e","b","p">>,
      <<"*",".","i","c","o">>,
      <<"*",".","s","v","g">>,
      <<"*",".","m","p","3">>,
      <<"*",".","w","a","v">>,
      <<"*",".","o","g","g">>,
      <<"*",".","f","l","a","c">>,
      <<"*",".","m","p","4">>,
      <<"*",".","a","v","i">>,
      <<"*",".","m","o","v">>,
      <<"*",".","w","m","v">>,
      <<"*",".","m","k","v">>,
      <<"*",".","w","e","b","m">>,
      <<"*",".","p","d","f">>,
      <<"*",".","d","o","c">>,
      <<"*",".","d","o","c","x">>,
      <<"*",".","p","p","t">>,
      <<"*",".","p","p","t","x">>,
      <<"*",".","x","l","s">>,
      <<"*",".","x","l","s","x">>,
      <<"*",".","o","d","t">>,
      <<"*",".","o","d","p">>,
      <<"*",".","o","d","s">>,
      <<"*",".","z","i","p">>,
      <<"*",".","t","a","r">>,
      <<"*",".","g","z">>,
      <<"*",".","r","a","r">>,
      <<"*",".","7","z">>,
      <<"*",".","t","g","z">>,
      <<"*",".","b","z","2">>,
      <<"*",".","i","s","o">>,
      <<"*",".","d","m","g">>,
      <<"*",".","t","t","f">>,
      <<"*",".","o","t","f">>,
      <<"*",".","w","o","f","f">>,
      <<"*",".","w","o","f","f","2">>,
      <<"n","o","d","e","_","m","o","d","u","l","e","s","/">>,
      <<"v","e","n","d","o","r","/">>,
      <<"b","o","w","e","r","_","c","o","m","p","o","n","e","n","t","s","/">>,
      <<"c","d","k",".","o","u","t","/">>
   >>

(***************************************************************************)
(* The gitignore matcher the program builds and queries:                   *)
(* pathspec.PathSpec.from_lines(GitWildMatchPattern, lines) at cli.py      *)
(* 113-115 and spec.match_file(path) at core.py 264 and 283.  The lines    *)
(* the model draws use literal characters, "*", "/", "!" and "#".          *)
(***************************************************************************)
DoubleStar == <<"*", "*">>

\* a comment, a blank line or a lone "/": a pattern that matches nothing
\* (include is None)
NullPattern(line) == [line |-> line, null |-> TRUE, include |-> FALSE, regex |-> <<>>, valid |-> TRUE]

\* a line with nothing left after its markers are removed
\* (GitWildMatchPatternError)
InvalidPattern(line) == [line |-> line, null |-> TRUE, include |-> FALSE, regex |-> <<>>, valid |-> FALSE]

\* the regex of one segment: "**", "*" ([^/]+), a literal name, "*" followed
\* by a literal ([^/]*text), or another glob
translate_segment(seg) ==
  IF seg = DoubleStar THEN [kind |-> "dirs", text |-> seg]
  ELSE IF seg = <<"*">> THEN [kind |-> "any", text |-> seg]
  ELSE LET stars == Cardinality({i \in DOMAIN seg : seg[i] = "*"})
       IN IF stars = 0 THEN [kind |-> "literal", text |-> seg]
          ELSE IF stars = 1 /\ Head(seg) = "*" THEN [kind |-> "suffix", text |-> Tail(seg)]
          ELSE [kind |-> "glob", text |-> seg]

\* GitWildMatchPattern.pattern_to_regex: negation, anchoring and the
\* directory marker of one line, and its segments
pattern_to_regex(line) ==
  LET pattern == Strip(line)
  IN IF StartsWith(pattern, "#") \/ pattern = <<"/">> \/ pattern = <<>>
     THEN NullPattern(line)
     ELSE
       LET include == ~StartsWith(pattern, "!")
           body == IF include THEN pattern ELSE Tail(pattern)
           segs0 == Split(body, "/")
           \* a leading slash anchors; a lone name (with or without a
           \* trailing slash) matches at any depth; an inner slash anchors
           segs1 == IF segs0[1] = <<>> THEN Tail(segs0)
                    ELSE IF Len(segs0) = 1 \/ (Len(segs0) = 2 /\ segs0[2] = <<>>)
                      THEN (IF segs0[1] = DoubleStar THEN segs0 ELSE <<DoubleStar>> \o segs0)
                    ELSE segs0
           \* a trailing slash matches everything under the directory
           segs2 == IF segs1[Len(segs1)] = <<>> /\ Len(segs1) > 1
                    THEN [segs1 EXCEPT ![Len(segs1)] = DoubleStar]
                    ELSE segs1
       IN IF segs1 = <<>>
          THEN InvalidPattern(line)
          ELSE [line |-> line,
                null |-> FALSE,
                include |-> include,
                regex |-> [i \in DOMAIN segs2 |-> translate_segment(segs2[i])],
                valid |-> TRUE]

RECURSIVE GlobMatch(_, _)
\* one pattern segment against one path segment: "*" is [^/]*
GlobMatch(pat, s) ==
  IF pat = <<>> THEN s = <<>>
  ELSE IF Head(pat) = "*"
    THEN GlobMatch(Tail(pat), s) \/ (s # <<>> /\ GlobMatch(pat, Tail(s)))
  ELSE s # <<>> /\ Head(s) = Head(pat) /\ GlobMatch(Tail(pat), Tail(s))

\* the regex of one segment against one path segment
SegMatch(tok, s) ==
  IF tok.kind = "literal" THEN tok.text = s
  ELSE IF tok.kind = "suffix"
    THEN Len(s) >= Len(tok.text) /\ SubSeq(s, Len(s) - Len(tok.text) + 1, Len(s)) = tok.text
  ELSE IF tok.kind = "any" THEN s # <<>>
  ELSE GlobMatch(tok.text, s)

RECURSIVE SegsMatch(_, _, _, _)
\* the regex of the segments regex[k..] against the path segments P[i..]
SegsMatch(regex, k, P, i) ==
  IF k > Len(regex) THEN TRUE                          \* (?:/.*)?$
  ELSE IF regex[k].kind = "dirs"
    THEN IF k = Len(regex)
           THEN IF k = 1 THEN i <= Len(P) /\ P[i] # <<>>      \* [^/]+(?:/.*)?
                ELSE i <= Len(P)                              \* /.*
         ELSE \E j \in i..Len(P) : SegsMatch(regex, k + 1, P, j)   \* (?:.+/)?
  ELSE /\ i <= Len(P)
       /\ SegMatch(regex[k], P[i])
       /\ SegsMatch(regex, k + 1, P, i + 1)

\* pathspec.util.normalize_file: a leading "./" is dropped
normalize_file(file) ==
  IF Len(file) >= 2 /\ file[1] = "." /\ file[2] = "/" THEN SubSeq(file, 3, Len(file)) ELSE file

\* Pattern.match_file: the pattern's regex against the segments of the
\* normalised path
PatternMatches(pat, P) == SegsMatch(pat.regex, 1, P, 1)

RECURSIVE MatchRange(_, _, _, _, _)
\* one forward pass over patterns[lo..hi], keeping the verdict of the latest
\* match; matched is the verdict before lo (the pass is split in two halves
\* only to keep the evaluation shallow)
MatchRange(patterns, hit, lo, hi, matched) ==
  IF lo > hi THEN matched
  ELSE IF lo = hi THEN (IF hit[lo] THEN patterns[lo].include ELSE matched)
  ELSE LET mid == (lo + hi) \div 2
       IN IF MatchRange(patterns, hit, lo, mid, matched)
          THEN MatchRange(patterns, hit, mid + 1, hi, TRUE)
          ELSE MatchRange(patterns, hit, mid + 1, hi, FALSE)

\* PathSpec.match_file(file)
match_file(patterns, file) ==
  LET P == Split(normalize_file(file), "/")
      hit == [i \in DOMAIN patterns |-> ~patterns[i].null /\ PatternMatches(patterns[i], P)]
  IN MatchRange(patterns, hit, 1, Len(patterns), FALSE)

\* every non-empty line compiled, in order
CompiledLines(lines) ==
  LET kept == SelectSeq(lines, LAMBDA l : l # <<>>)
  IN [i \in DOMAIN kept |-> pattern_to_regex(kept[i])]

\* PathSpec.from_lines: the compiled patterns, or the error raised for the
\* first line that cannot be compiled
from_lines(lines) ==
  LET c == CompiledLines(lines)
      bad == {i \in DOMAIN c : ~c[i].valid}
  IN IF bad = {}
     THEN [error |-> FALSE, bad_line |-> <<>>, patterns |-> c]
     ELSE [error |-> TRUE,
           bad_line |-> c[CHOOSE i \in bad : \A j \in bad : i <= j].line,
           patterns |-> <<>>]

(***************************************************************************)
(* Paths.  A path below the project root is kept relative to it, with "/"  *)
(* between its parts; the root itself is the empty string, as              *)
(* current_rel_dir is (core.py 253-255).                                   *)
(***************************************************************************)
\* os.path.join(a, b) followed by .replace(os.sep, "/")
path_join(a, b) == IF a = <<>> THEN b ELSE a \o <<"/">> \o b

Basename(p) == LET parts == Split(p, "/") IN parts[Len(parts)]

Dirname(p) == LET parts == Split(p, "/") IN Join(SubSeq(parts, 1, Len(parts) - 1), "/")

RECURSIVE Ancestors(_)
\* the directories strictly between the root and p
Ancestors(p) == IF Dirname(p) = <<>> THEN {} ELSE {Dirname(p)} \cup Ancestors(Dirname(p))

\* the directories of a tree given by its files; <<>> is the root
AllDirs(files) == {<<>>} \cup UNION {Ancestors(f) : f \in files}

\* what scandir(top) lists: the names of top's sub-directories and files
SubdirNames(files, top) == {Basename(d) : d \in {x \in AllDirs(files) \ {<<>>} : Dirname(x) = top}}
FileNames(files, top) == {Basename(f) : f \in {x \in files : Dirname(x) = top}}

RECURSIVE Perms(_)
\* the orders in which scandir can list a set of names
Perms(S) ==
  IF S = {} THEN {<<>>}
  ELSE UNION {{<<x>> \o q : q \in Perms(S \ {x})} : x \in S}

\* the parts of an absolute path
Components(abs) == SelectSeq(Split(abs, "/"), LAMBDA c : c # <<>>)

RECURSIVE CommonPrefix(_, _)
CommonPrefix(a, b) ==
  IF a = <<>> \/ b = <<>> \/ Head(a) # Head(b) THEN <<>>
  ELSE <<Head(a)>> \o CommonPrefix(Tail(a), Tail(b))

(***************************************************************************)
(* The inputs the model draws.                                             *)
(***************************************************************************)
project_root_str == <<"/", "p">>   \* /p
OutOutside == <<"/", "o", "/", "i", "m", "p", "o", "r", "t", "a", "n", "t", ".", "l", "o", "g">>   \* /o/important.log
OutInside == <<"/", "p", "/", "i", "m", "p", "o", "r", "t", "a", "n", "t", ".", "l", "o", "g">>   \* /p/important.log
OutBang == <<"/", "p", "/", "!", "n", "o", "t", "e", "s", ".", "t", "x", "t">>   \* /p/!notes.txt
L_logs_dir == <<"l", "o", "g", "s", "/">>   \* logs/
L_neg_important == <<"!", "i", "m", "p", "o", "r", "t", "a", "n", "t", ".", "l", "o", "g">>   \* !important.log
L_comment == <<" ", "#", " ", "n", "o", "t", "e", "\n", " ">>   \*  # note\n 
L_bang == <<"!">>   \* !
L_star_log == <<"*", ".", "l", "o", "g">>   \* *.log
L_build_dir == <<"b", "u", "i", "l", "d", "/">>   \* build/
GitignoreOfTest == <<"#", " ", "C", "o", "m", "m", "e", "n", "t", "\n", "*", ".", "l", "o", "g", "\n", "\n", "b", "u", "i", "l", "d", "/">>   \* # Comment\n*.log\n\nbuild/
P_main_py == <<"m", "a", "i", "n", ".", "p", "y">>   \* main.py
P_README_md == <<"R", "E", "A", "D", "M", "E", ".", "m", "d">>   \* README.md
P_app_log == <<"a", "p", "p", ".", "l", "o", "g">>   \* app.log
P_env == <<".", "e", "n", "v">>   \* .env
P_image_png == <<"i", "m", "a", "g", "e", ".", "p", "n", "g">>   \* image.png
P_build_output_bin == <<"b", "u", "i", "l", "d", "/", "o", "u", "t", "p", "u", "t", ".", "b", "i", "n">>   \* build/output.bin
P_src_module_py == <<"s", "r", "c", "/", "m", "o", "d", "u", "l", "e", ".", "p", "y">>   \* src/module.py
P_git_config == <<".", "g", "i", "t", "/", "c", "o", "n", "f", "i", "g">>   \* .git/config
P_gitignore == <<".", "g", "i", "t", "i", "g", "n", "o", "r", "e">>   \* .gitignore
P_z_txt == <<"z", ".", "t", "x", "t">>   \* z.txt
P_a_b_txt == <<"a", "/", "b", ".", "t", "x", "t">>   \* a/b.txt
P_a_txt == <<"a", ".", "t", "x", "t">>   \* a.txt
P_important_log == <<"i", "m", "p", "o", "r", "t", "a", "n", "t", ".", "l", "o", "g">>   \* important.log
P_logs_important_log == <<"l", "o", "g", "s", "/", "i", "m", "p", "o", "r", "t", "a", "n", "t", ".", "l", "o", "g">>   \* logs/important.log
P_src_logs == <<"s", "r", "c", "/", "l", "o", "g", "s">>   \* src/logs
P_logs == <<"l", "o", "g", "s">>   \* logs
P_a_logs_keep_txt == <<"a", "/", "l", "o", "g", "s", "/", "k", "e", "e", "p", ".", "t", "x", "t">>   \* a/logs/keep.txt
P_bang_notes_txt == <<"!", "n", "o", "t", "e", "s", ".", "t", "x", "t">>   \* !notes.txt
L_slash_logs == <<"/", "l", "o", "g", "s">>   \* /logs
L_slash_build == <<"/", "b", "u", "i", "l", "d">>   \* /build
P_build == <<"b", "u", "i", "l", "d">>   \* build
P_src_build == <<"s", "r", "c", "/", "b", "u", "i", "l", "d">>   \* src/build
P_src_build_out == <<"s", "r", "c", "/", "b", "u", "i", "l", "d", "/", "o", "u", "t">>   \* src/build/out
\* lines of a .gitignore: a directory pattern, a negation, and a line that
\* does not compile
LinePool == {L_logs_dir, L_neg_important, L_bang}

\* the tree of test_find_files_basic_ignore (test_core.py 81-89)
TreeScenario ==
  {P_main_py, P_README_md, P_app_log, P_env, P_image_png, P_build_output_bin,
   P_src_module_py, P_git_config}
TreeSort == {P_z_txt, P_a_b_txt, P_a_txt}
\* a directory named logs at the root and a file named logs below it
TreeLogs == {P_important_log, P_logs_important_log, P_src_logs}
\* a file named logs at the root and a directory named logs below it
TreeFile == {P_logs, P_a_logs_keep_txt, P_bang_notes_txt}
TreeEmpty == {}

Trees == {TreeScenario, TreeSort, TreeLogs, TreeFile, TreeEmpty}

OutputPaths == {OutOutside, OutInside, OutBang}

\* the user's .gitignore: absent, present but unreadable, or its text (the
\* file of the test, a comment and a blank line, the name logs anchored to
\* the root or not, or lines of the pool)
GitignoreFiles ==
  {[state |-> "missing", content |-> <<>>], [state |-> "unreadable", content |-> <<>>],
   [state |-> "readable", content |-> GitignoreOfTest],
   [state |-> "readable", content |-> L_comment],
   [state |-> "readable", content |-> L_slash_logs],
   [state |-> "readable", content |-> P_logs]}
  \cup {[state |-> "readable", content |-> Join(ls, "\n")] : ls \in SeqUpTo(LinePool, MaxUserLines)}

(***************************************************************************)
(* core.py: read_gitignore_lines.                                          *)
(***************************************************************************)
\* the lines of the user's file that are neither blank nor comments
user_lines(content) ==
  SelectSeq(Splitlines(content),
            LAMBDA line : Strip(line) # <<>> /\ ~StartsWith(Strip(line), "#"))

\* mutant: the lines are added to the default list itself, not to a copy
read_gitignore_lines_no_copy(defaults, gi) ==
  LET lines == IF gi.state = "readable" THEN defaults \o user_lines(gi.content) ELSE defaults
  IN [lines |-> lines, defaults |-> lines, message |-> "Read and appended patterns"]

\* the returned list and the module-level default list after the call;
\* the lines are added to a copy of the defaults
read_gitignore_lines(defaults, gi) ==
  LET lines == IF gi.state = "readable" THEN defaults \o user_lines(gi.content) ELSE defaults
  IN [lines |-> lines,
      defaults |-> defaults,
      message |-> IF gi.state = "missing" THEN "No user .gitignore file found"
                  ELSE IF gi.state = "unreadable" THEN "Warning: Could not read user .gitignore"
                  ELSE IF user_lines(gi.content) # <<>> THEN "Read and appended patterns"
                  ELSE "User .gitignore exists but is empty or only comments"]

(***************************************************************************)
(* cli.py: the pattern that excludes the output file.                      *)
(***************************************************************************)
\* os.path.commonpath([root]) == os.path.commonpath([root, out])
InsideRoot(root, out) ==
  CommonPrefix(Components(root), Components(out)) = Components(root)

\* os.path.relpath(out, root).replace(os.sep, "/") for an out below root
output_rel_path(root, out) ==
  Join(SubSeq(Components(out), Len(Components(root)) + 1, Len(Components(out))), "/")

\* gitignore_lines after the dynamic ignore of the output file
with_output_ignored(lines, root, out) ==
  IF InsideRoot(root, out) /\ root # out
  THEN Append(lines, output_rel_path(root, out))
  ELSE lines

(***************************************************************************)
(* core.py: find_exportable_files, one step per directory os.walk yields.  *)
(***************************************************************************)
\* mutant: nothing is pruned
dirs_to_prune_nothing(patterns, current_rel_dir, dirnames) == {}

\* mutant: the directory is queried without its trailing slash
dirs_to_prune_no_slash(patterns, current_rel_dir, dirnames) ==
  {d \in dirnames : match_file(patterns, path_join(current_rel_dir, d))}

\* mutant: the directory is queried by its path from the directory being
\* walked, not from the root
dirs_to_prune_from_dirpath(patterns, current_rel_dir, dirnames) ==
  {d \in dirnames : match_file(patterns, d \o <<"/">>)}

\* the sub-directories the rule set ignores, queried with a trailing slash
dirs_to_prune(patterns, current_rel_dir, dirnames) ==
  {d \in dirnames : match_file(patterns, path_join(current_rel_dir, d) \o <<"/">>)}

\* mutant: every file is taken, the rule set is not asked
exportable_here_unchecked(patterns, current_rel_dir, filenames) == filenames

\* mutant: a file is queried like a directory, with a trailing slash
exportable_here_as_dir(patterns, current_rel_dir, filenames) ==
  {f \in filenames : ~match_file(patterns, path_join(current_rel_dir, f) \o <<"/">>)}

\* the files of the directory that the rule set does not ignore
exportable_here(patterns, current_rel_dir, filenames) ==
  {f \in filenames : ~match_file(patterns, path_join(current_rel_dir, f))}

(***************************************************************************)
(* core.py: generate_file_tree and the texts write_export_file writes.     *)
(* The box-drawing characters are written by their code points.            *)
(***************************************************************************)
T_start_tree == <<"-", "-", "-", " ", "S", "T", "A", "R", "T", " ", "F", "I", "L", "E", " ", "T", "R", "E", "E", " ", "-", "-", "-", "\n">>
T_end_tree == <<"-", "-", "-", " ", "E", "N", "D", " ", "F", "I", "L", "E", " ", "T", "R", "E", "E", " ", "-", "-", "-", "\n", "\n">>
T_start_file == <<"-", "-", "-", " ", "S", "T", "A", "R", "T", " ", "F", "I", "L", "E", ":", " ">>
T_end_file == <<"\n", "-", "-", "-", " ", "E", "N", "D", " ", "F", "I", "L", "E", ":", " ">>
T_dashes == <<" ", "-", "-", "-", "\n">>
T_error_reading == <<"E", "r", "r", "o", "r", " ", "r", "e", "a", "d", "i", "n", "g", " ", "f", "i", "l", "e", ":", " ">>
T_no_files == <<"(", "N", "o", " ", "f", "i", "l", "e", "s", " ", "f", "o", "u", "n", "d", " ", "t", "o", " ", "i", "n", "c", "l", "u", "d", "e", " ", "i", "n", " ", "t", "r", "e", "e", ")", "\n">>
T_exported == <<"E", "x", "p", "o", "r", "t", "e", "d", " ", "F", "i", "l", "e", " ", "S", "t", "r", "u", "c", "t", "u", "r", "e", ":">>
T_errno == <<"E", "r", "r", "n", "o", " ", "1", "3", " ", "P", "e", "r", "m", "i", "s", "s", "i", "o", "n", " ", "d", "e", "n", "i", "e", "d">>
T_content_of == <<"C", "o", "n", "t", "e", "n", "t", " ", "o", "f", " ">>
BoxUpRight == "U+2514"        \* the corner of the connector of a last item
BoxVertRight == "U+251C"      \* the branch of the connector of another item
BoxHoriz == "U+2500"
BoxVert == "U+2502"

\* the text of a file of the tree, and str(e) of a failed read
FileContent(path) == T_content_of \o path
ErrorText(path) == T_errno \o <<" ">> \o path

\* path_str.split("/")
Parts(path) == Split(path, "/")

\* the keys of the nested dict at the level reached by the names of prefix
LevelKeys(file_paths, prefix) ==
  {Parts(p)[Len(prefix) + 1] :
     p \in {q \in Range(file_paths) :
              Len(Parts(q)) > Len(prefix) /\ SubSeq(Parts(q), 1, Len(prefix)) = prefix}}

\* the key holds a dict (a directory), not None (a file)
IsDict(file_paths, prefix, name) ==
  \E q \in Range(file_paths) :
    Len(Parts(q)) > Len(prefix) + 1 /\ SubSeq(Parts(q), 1, Len(prefix) + 1) = Append(prefix, name)

RECURSIVE format_level(_, _, _, _, _)
\* the lines of items[i..] of one level and of the levels below them
format_level(file_paths, prefix, current_indent, items, i) ==
  IF i > Len(items) THEN <<>>
  ELSE
    LET name == items[i]
        is_last_item == i = Len(items)
        connector == IF is_last_item THEN <<BoxUpRight, BoxHoriz, BoxHoriz, " ">>
                     ELSE <<BoxVertRight, BoxHoriz, BoxHoriz, " ">>
        next_indent == current_indent \o (IF is_last_item THEN <<" ", " ", " ", " ">>
                                          ELSE <<BoxVert, " ", " ", " ">>)
        below == Append(prefix, name)
    IN <<current_indent \o connector \o name>>
       \o (IF IsDict(file_paths, prefix, name)
           THEN format_level(file_paths, below, next_indent,
                             sorted(CHOOSE s \in Perms(LevelKeys(file_paths, below)) : TRUE), 1)
           ELSE <<>>)
       \o format_level(file_paths, prefix, current_indent, items, i + 1)

\* the rendering of the exported paths as a tree
generate_file_tree(file_paths) ==
  IF file_paths = <<>> THEN T_no_files
  ELSE Join(<<T_exported, <<".">>>>
            \o format_level(file_paths, <<>>, <<>>,
                            sorted(CHOOSE s \in Perms(LevelKeys(file_paths, <<>>)) : TRUE), 1),
            "\n") \o <<"\n">>

\* core.py 310-314: what is written before the files
tree_section(files, include_tree) ==
  IF include_tree THEN <<T_start_tree, generate_file_tree(files), T_end_tree>> ELSE <<>>

\* core.py 318-358: what one file adds to the output file and to the counts
file_block(relative_path, readable) ==
  [writes |-> <<T_start_file \o relative_path \o T_dashes,
                IF readable THEN FileContent(relative_path)
                ELSE T_error_reading \o ErrorText(relative_path) \o <<"\n">>,
                T_end_file \o relative_path \o T_dashes \o <<"\n">> >>,
   read |-> IF readable THEN 1 ELSE 0,
   size |-> IF readable THEN Len(FileContent(relative_path)) ELSE 0]

\* core.py 264, 283: the paths of one directory's entries that are passed to
\* spec.match_file, the sub-directories with a trailing slash
queries_here(current_rel_dir, dirnames, filenames) ==
  {path_join(current_rel_dir, d) \o <<"/">> : d \in dirnames}
    \cup {path_join(current_rel_dir, f) : f \in filenames}

VARIABLES
  DEFAULT_IGNORE_PATTERNS,  \* the module-level list of core.py
  tree,                     \* the files below the project root
  gitignore,                \* the user's .gitignore
  unreadable,               \* the directories whose scandir fails
  output_file_path_str,     \* the resolved output path
  pc,                       \* where main() is
  gitignore_lines,          \* the raw rule list
  spec,                     \* the compiled rule set
  stack,                    \* os.walk: directories still to enumerate
  visited,                  \* the directories os.walk has yielded, in order
  queried,                  \* the paths passed to spec.match_file
  exportable_files,         \* find_exportable_files: files found so far
  files_to_export,          \* the list find_exportable_files returned
  stderr,                   \* the messages written to stderr
  exit_code,                \* the process's exit code, -1 while running
  output_written,           \* whether the output file has been written
  outfile,                  \* write_export_file: the texts written to the output file
  file_count,               \* write_export_file: the files read
  total_size,               \* write_export_file: the size of what was read
  next_file,                \* write_export_file: position in files_to_export
  previous                  \* the earlier calls of find_exportable_files: what
                            \* each found, enumerated and returned

vars ==
  <<DEFAULT_IGNORE_PATTERNS, tree, gitignore, unreadable, output_file_path_str, pc,
    gitignore_lines, spec, stack, visited, queried, exportable_files, files_to_export, stderr,
    exit_code, output_written, outfile, file_count, total_size, next_file, previous>>

writer == <<outfile, file_count, total_size, next_file>>

env == <<tree, gitignore, unreadable, output_file_path_str>>

Msg(text, detail) == [msg |-> text, detail |-> detail]

Init ==
  /\ DEFAULT_IGNORE_PATTERNS = DefaultPatterns
  /\ gitignore \in GitignoreFiles
  /\ \E base \in Trees :
       tree = base \cup (IF gitignore.state = "missing" THEN {} ELSE {P_gitignore})
  /\ unreadable \in {U \in SUBSET AllDirs(tree) : Cardinality(U) <= MaxUnreadable}
  /\ output_file_path_str \in OutputPaths
  /\ pc = "read"
  /\ gitignore_lines = <<>>
  /\ spec = <<>>
  /\ stack = <<>>
  /\ visited = <<>>
  /\ queried = {}
  /\ exportable_files = <<>>
  /\ files_to_export = <<>>
  /\ stderr = <<>>
  /\ exit_code = -1
  /\ output_written = FALSE
  /\ outfile = <<>>
  /\ file_count = 0
  /\ total_size = 0
  /\ next_file = 1
  /\ previous = <<>>

\* cli.py 89-91
ReadGitignoreLines ==
  /\ pc = "read"
  /\ LET r == read_gitignore_lines(DEFAULT_IGNORE_PATTERNS, gitignore)
     IN /\ gitignore_lines' = r.lines
        /\ DEFAULT_IGNORE_PATTERNS' = r.defaults
        /\ stderr' = Append(stderr, Msg(r.message, <<>>))
  /\ pc' = "ignore_output"
  /\ UNCHANGED <<env, spec, stack, visited, queried, exportable_files, files_to_export, exit_code,
                 output_written, writer, previous>>

\* cli.py 93-110
IgnoreOutputFile ==
  /\ pc = "ignore_output"
  /\ gitignore_lines' = with_output_ignored(gitignore_lines, project_root_str, output_file_path_str)
  /\ stderr' = IF gitignore_lines' # gitignore_lines
               THEN Append(stderr, Msg("Dynamically ignoring output file",
                                       output_rel_path(project_root_str, output_file_path_str)))
               ELSE stderr
  /\ pc' = "compile"
  /\ UNCHANGED <<DEFAULT_IGNORE_PATTERNS, env, spec, stack, visited, queried, exportable_files,
                 files_to_export, exit_code, output_written, writer, previous>>

\* cli.py 112-115 and 122-125: the rule set compiles and the scan starts at the root
FromLinesOk ==
  /\ pc = "compile"
  /\ \E compiled \in {from_lines(gitignore_lines)} :
       /\ ~compiled.error
       /\ spec' = compiled.patterns
  /\ stack' = <<<<>>>>
  /\ pc' = "scan"
  /\ UNCHANGED <<DEFAULT_IGNORE_PATTERNS, env, gitignore_lines, visited, queried, exportable_files,
                 files_to_export, stderr, exit_code, output_written, writer, previous>>

\* mutant: the lines that do not compile are dropped and the scan starts
FromLinesErrorSkipped ==
  /\ pc = "compile"
  /\ from_lines(gitignore_lines).error
  /\ spec' = SelectSeq(CompiledLines(gitignore_lines), LAMBDA c : c.valid)
  /\ stack' = <<<<>>>>
  /\ pc' = "scan"
  /\ UNCHANGED <<DEFAULT_IGNORE_PATTERNS, env, gitignore_lines, visited, queried, exportable_files,
                 files_to_export, stderr, exit_code, output_written, writer, previous>>

\* cli.py 116-120: a line does not compile
FromLinesError ==
  /\ pc = "compile"
  /\ \E compiled \in {from_lines(gitignore_lines)} :
       /\ compiled.error
       /\ stderr' = Append(stderr, Msg("Error parsing ignore patterns", compiled.bad_line))
  /\ exit_code' = 1
  /\ pc' = "exit"
  /\ UNCHANGED <<DEFAULT_IGNORE_PATTERNS, env, gitignore_lines, spec, stack, visited, queried,
                 exportable_files, files_to_export, output_written, writer, previous>>

\* os.walk: scandir of the next directory fails; with onerror unset the
\* error is dropped and the walk goes on (core.py 249)
ScandirFails ==
  /\ pc = "scan"
  /\ stack # <<>>
  /\ Head(stack) \in unreadable
  /\ stack' = Tail(stack)
  /\ UNCHANGED <<DEFAULT_IGNORE_PATTERNS, env, pc, gitignore_lines, spec, visited, queried,
                 exportable_files, files_to_export, stderr, exit_code, output_written, writer,
                 previous>>

\* mutant: the pruned names are dropped from a new list, not from the list
\* os.walk goes on with
WalkStepNotInPlace ==
  /\ pc = "scan"
  /\ stack # <<>>
  /\ Head(stack) \notin unreadable
  /\ \E current_rel_dir \in {Head(stack)} :
     \E prune \in {dirs_to_prune(spec, current_rel_dir, SubdirNames(tree, current_rel_dir))},
        keep \in {exportable_here(spec, current_rel_dir, FileNames(tree, current_rel_dir))} :
     \E descend \in Perms(SubdirNames(tree, current_rel_dir)),
        found \in Perms(keep) :
       /\ stack' = [i \in DOMAIN descend |-> path_join(current_rel_dir, descend[i])]
                     \o Tail(stack)
       /\ exportable_files' =
            exportable_files \o [i \in DOMAIN found |-> path_join(current_rel_dir, found[i])]
  /\ visited' = Append(visited, Head(stack))
  /\ queried' = queried \cup queries_here(Head(stack), SubdirNames(tree, Head(stack)),
                                          FileNames(tree, Head(stack)))
  /\ UNCHANGED <<DEFAULT_IGNORE_PATTERNS, env, pc, gitignore_lines, spec, files_to_export,
                 stderr, exit_code, output_written, writer, previous>>

\* core.py 249-284: one iteration of the loop over os.walk
WalkStep ==
  /\ pc = "scan"
  /\ stack # <<>>
  /\ Head(stack) \notin unreadable
  /\ \E current_rel_dir \in {Head(stack)} :
     \E prune \in {dirs_to_prune(spec, current_rel_dir, SubdirNames(tree, current_rel_dir))},
        keep \in {exportable_here(spec, current_rel_dir, FileNames(tree, current_rel_dir))} :
     \* scandir lists the names in any order; what is left of a listing once
     \* the pruned or ignored names are dropped is any order of the others
     \E descend \in Perms(SubdirNames(tree, current_rel_dir) \ prune),
        found \in Perms(keep) :
       /\ stack' = [i \in DOMAIN descend |-> path_join(current_rel_dir, descend[i])]
                     \o Tail(stack)
       /\ exportable_files' =
            exportable_files \o [i \in DOMAIN found |-> path_join(current_rel_dir, found[i])]
  /\ visited' = Append(visited, Head(stack))
  /\ queried' = queried \cup queries_here(Head(stack), SubdirNames(tree, Head(stack)),
                                          FileNames(tree, Head(stack)))
  /\ UNCHANGED <<DEFAULT_IGNORE_PATTERNS, env, pc, gitignore_lines, spec, files_to_export,
                 stderr, exit_code, output_written, writer, previous>>

\* core.py 286: the walk is over and the sorted list is returned
FindReturn ==
  /\ pc = "scan"
  /\ stack = <<>>
  /\ files_to_export' = sorted(exportable_files)
  /\ pc' = "found"
  /\ UNCHANGED <<DEFAULT_IGNORE_PATTERNS, env, gitignore_lines, spec, stack, visited, queried,
                 exportable_files, stderr, exit_code, output_written, writer, previous>>

\* mutant: the list of the earlier call is added to, not a new one
FindAgainSameList ==
  /\ pc = "found"
  /\ Len(previous) < MaxCalls - 1
  /\ previous' = Append(previous, [found |-> exportable_files, visited |-> visited, queried |-> queried,
                                   returned |-> files_to_export])
  /\ stack' = <<<<>>>>
  /\ visited' = <<>>
  /\ queried' = {}
  /\ pc' = "scan"
  /\ UNCHANGED <<DEFAULT_IGNORE_PATTERNS, env, gitignore_lines, spec, exportable_files,
                 files_to_export, stderr, exit_code, output_written, writer>>

\* core.py 241-249: find_exportable_files is called once more with the same
\* root and rule set; its list starts empty and os.walk starts at the root
FindAgain ==
  /\ pc = "found"
  /\ Len(previous) < MaxCalls - 1
  /\ previous' = Append(previous, [found |-> exportable_files, visited |-> visited, queried |-> queried,
                                   returned |-> files_to_export])
  /\ exportable_files' = <<>>
  /\ stack' = <<<<>>>>
  /\ visited' = <<>>
  /\ queried' = {}
  /\ pc' = "scan"
  /\ UNCHANGED <<DEFAULT_IGNORE_PATTERNS, env, gitignore_lines, spec, files_to_export, stderr,
                 exit_code, output_written, writer>>

\* cli.py 130-136
NoFilesFound ==
  /\ pc = "found"
  /\ files_to_export = <<>>
  /\ exit_code' = 0
  /\ pc' = "exit"
  /\ UNCHANGED <<DEFAULT_IGNORE_PATTERNS, env, gitignore_lines, spec, stack, visited, queried,
                 exportable_files, files_to_export, stderr, output_written, writer, previous>>

\* cli.py 138-155: the confirmation prompt (or --yes)
Confirm ==
  /\ pc = "found"
  /\ files_to_export # <<>>
  /\ \E answer \in {"yes", "no", "abort"} :
       /\ pc' = IF answer = "yes" THEN "write" ELSE "exit"
       /\ exit_code' = IF answer = "yes" THEN exit_code ELSE IF answer = "no" THEN 0 ELSE 130
  /\ UNCHANGED <<DEFAULT_IGNORE_PATTERNS, env, gitignore_lines, spec, stack, visited, queried,
                 exportable_files, files_to_export, stderr, output_written, writer, previous>>

\* cli.py 157-167, core.py 304-315: the output file is opened and the tree
\* is written, or opening it fails
OpenOutfile ==
  /\ pc = "write"
  /\ \E opened \in BOOLEAN, include_tree \in BOOLEAN :
       IF opened
       THEN /\ outfile' = tree_section(files_to_export, include_tree)
            /\ pc' = "writing"
            /\ UNCHANGED <<stderr, exit_code>>
       ELSE /\ stderr' = Append(stderr, Msg("Scribing failed during file writing", <<>>))
            /\ exit_code' = 1
            /\ pc' = "exit"
            /\ UNCHANGED outfile
  /\ file_count' = 0
  /\ total_size' = 0
  /\ next_file' = 1
  /\ UNCHANGED <<DEFAULT_IGNORE_PATTERNS, env, gitignore_lines, spec, stack, visited, queried,
                 exportable_files, files_to_export, output_written, previous>>

\* mutant: the export stops at the first file that cannot be read
ScribeFileAbort ==
  /\ pc = "writing"
  /\ next_file <= Len(files_to_export)
  /\ \E readable \in BOOLEAN :
     \E block \in {file_block(files_to_export[next_file], readable)} :
       /\ outfile' = outfile \o (IF readable THEN block.writes ELSE <<block.writes[1]>>)
       /\ file_count' = file_count + block.read
       /\ total_size' = total_size + block.size
       /\ stderr' = Append(stderr, Msg("Scribing", files_to_export[next_file]))
       /\ pc' = IF readable THEN pc ELSE "exit"
       /\ exit_code' = IF readable THEN exit_code ELSE 1
  /\ next_file' = next_file + 1
  /\ UNCHANGED <<DEFAULT_IGNORE_PATTERNS, env, gitignore_lines, spec, stack, visited, queried,
                 exportable_files, files_to_export, output_written, previous>>

\* core.py 318-358: one iteration of the loop over files_to_export; the
\* file can be read, or reading it raises and the error is written in its place
ScribeFile ==
  /\ pc = "writing"
  /\ next_file <= Len(files_to_export)
  /\ \E readable \in BOOLEAN :
     \E block \in {file_block(files_to_export[next_file], readable)} :
       /\ outfile' = outfile \o block.writes
       /\ file_count' = file_count + block.read
       /\ total_size' = total_size + block.size
       /\ stderr' = IF readable
                    THEN Append(stderr, Msg("Scribing", files_to_export[next_file]))
                    ELSE stderr \o <<Msg("Scribing", files_to_export[next_file]),
                                     Msg("Warning: Could not read file",
                                         files_to_export[next_file])>>
  /\ next_file' = next_file + 1
  /\ UNCHANGED <<DEFAULT_IGNORE_PATTERNS, env, gitignore_lines, spec, stack, visited, queried,
                 exportable_files, files_to_export, exit_code, pc, output_written, previous>>

\* core.py 360-367, cli.py 176-180: a write to the output file raises
WriteRaises ==
  /\ pc = "writing"
  /\ stderr' = stderr \o <<Msg("An error occurred during writing export file", <<>>),
                           Msg("Scribing failed during file writing", <<>>)>>
  /\ exit_code' = 1
  /\ pc' = "exit"
  /\ UNCHANGED <<DEFAULT_IGNORE_PATTERNS, env, gitignore_lines, spec, stack, visited, queried,
                 exportable_files, files_to_export, output_written, writer, previous>>

\* core.py 369, cli.py 168-174: write_export_file returns file_count and
\* total_size and the run ends
WriteOutput ==
  /\ pc = "writing"
  /\ next_file > Len(files_to_export)
  /\ output_written' = TRUE
  /\ exit_code' = 0
  /\ pc' = "exit"
  /\ UNCHANGED <<DEFAULT_IGNORE_PATTERNS, env, gitignore_lines, spec, stack, visited, queried,
                 exportable_files, files_to_export, stderr, writer, previous>>

Next ==
  \/ ReadGitignoreLines
  \/ IgnoreOutputFile
  \/ FromLinesOk
  \/ FromLinesError
  \/ ScandirFails
  \/ WalkStep
  \/ FindReturn
  \/ NoFilesFound
  \/ Confirm
  \/ OpenOutfile
  \/ ScribeFile
  \/ WriteRaises
  \/ WriteOutput

Spec == Init /\ [][Next]_vars

\* find_exportable_files called repeatedly on the run's tree and rule set
NextCalls ==
  \/ ReadGitignoreLines
  \/ IgnoreOutputFile
  \/ FromLinesOk
  \/ FromLinesError
  \/ ScandirFails
  \/ WalkStep
  \/ FindReturn
  \/ FindAgain

SpecCalls == Init /\ [][NextCalls]_vars

\* one call of find_exportable_files in a run of main
NextWalk ==
  \/ ReadGitignoreLines
  \/ IgnoreOutputFile
  \/ FromLinesOk
  \/ FromLinesError
  \/ ScandirFails
  \/ WalkStep
  \/ FindReturn

\* os.walk can yield a directory: one that can be enumerated is next
WalkStepEnabled == pc = "scan" /\ stack # <<>> /\ Head(stack) \notin unreadable

\* the loop over os.walk is sequential code: an iteration that can run does
\* run, and the function returns once os.walk is exhausted. The condition on
\* WalkStep is WF_vars(WalkStep) with ENABLED <<WalkStep>>_vars written out.
SpecWalk ==
  Init /\ [][NextWalk]_vars
    /\ WF_vars(ScandirFails) /\ WF_vars(FindReturn)
    /\ ([]<>~WalkStepEnabled \/ []<><<WalkStep>>_vars)

(***************************************************************************)
(* Properties.                                                             *)
(***************************************************************************)
\* the rule set's verdict on a directory, queried with a trailing slash
DirIgnored(d) == match_file(spec, d \o <<"/">>)

\* the rule set's verdict on a file
FileIgnored(f) == match_file(spec, f)

\* find_exportable_files has just returned
Returned == pc = "found"

Result == Range(files_to_export)

\* the directories of the tree other than the root
SubDirs == AllDirs(tree) \ {<<>>}

\* C1 (pruning soundness): no returned path lies under a directory
\* that the rule set ignores, whatever the later patterns say about the file.
C1_PruningSound ==
  Returned =>
    \A D \in SubDirs :
      DirIgnored(D) => \A f \in Result : D \notin Ancestors(f)

\* the walk has returned after passing an ignored directory that holds a file
\* the rule set would, queried on its own, not ignore
C1_Witness ==
  /\ Returned
  /\ \E D \in SubDirs :
       /\ DirIgnored(D)
       /\ Dirname(D) \in Range(visited)
       /\ \E f \in tree : D \in Ancestors(f) /\ ~FileIgnored(f)

\* the files the claim C2 expects: not ignored, under no ignored directory
ExpectedFiles ==
  {p \in tree : ~FileIgnored(p) /\ \A d \in Ancestors(p) : ~DirIgnored(d)}

\* those of them that lie under no directory whose enumeration fails
ExpectedReadable ==
  {p \in ExpectedFiles : (Ancestors(p) \cup {<<>>}) \cap unreadable = {}}

\* the run of the test: its tree, its .gitignore
IsScenario ==
  /\ tree = TreeScenario \cup {P_gitignore}
  /\ gitignore = [state |-> "readable", content |-> GitignoreOfTest]

\* C2 as stated: the returned paths are exactly the files that are not
\* ignored and have no ignored ancestor, each once.
C2_ExactResultAsStated ==
  Returned =>
    /\ Result = ExpectedFiles
    /\ Len(files_to_export) = Cardinality(Result)

\* C2 (exact result set), amended: the returned paths are exactly the files
\* that are not ignored and have no ignored ancestor and lie under no
\* directory (the root included) whose enumeration fails, each once; in the
\* test's scenario with every directory readable the result is README.md,
\* main.py, src/module.py.
C2_ExactResult ==
  Returned =>
    /\ Result = ExpectedReadable
    /\ Len(files_to_export) = Cardinality(Result)
    /\ (IsScenario /\ unreadable = {}) =>
         files_to_export = <<P_README_md, P_main_py, P_src_module_py>>

\* the scenario of the test has been walked with every directory readable
C2_Witness == Returned /\ IsScenario /\ unreadable = {} /\ Len(visited) = 2

\* the patterns of the rule set that match a path
Hits(patterns, path) ==
  {i \in DOMAIN patterns :
     ~patterns[i].null /\ PatternMatches(patterns[i], Split(normalize_file(path), "/"))}

Last(S) == CHOOSE i \in S : \A j \in S : j <= i

\* the verdict of the last pattern, in list order, that matches the path
LastMatchIgnores(patterns, path) ==
  LET hits == Hits(patterns, path)
  IN hits # {} /\ patterns[Last(hits)].include

\* the compiled rule set keeps the order of the rule list
SpecInListOrder ==
  /\ Len(spec) = Len(gitignore_lines)
  /\ \A i \in DOMAIN spec : spec[i].line = gitignore_lines[i]

Patterns2(l1, l2) == from_lines(<<l1, l2>>).patterns

\* C3 (last match wins): the rule set is in list order, and every file of an
\* enumerated directory is returned exactly when the last pattern that
\* matches it is a negation or no pattern matches it; a readable sub-directory
\* of an enumerated directory is enumerated under the same rule; and the two
\* lists of the claim give its two verdicts.
C3_LastMatchWins ==
  /\ Returned =>
       /\ SpecInListOrder
       /\ \A f \in tree :
            Dirname(f) \in Range(visited) => (f \in Result <=> ~LastMatchIgnores(spec, f))
       /\ \A d \in SubDirs \ unreadable :
            Dirname(d) \in Range(visited) =>
              (d \in Range(visited) <=> ~LastMatchIgnores(spec, d \o <<"/">>))
  /\ pc = "read" =>
       /\ ~match_file(Patterns2(L_star_log, L_neg_important), P_important_log)
       /\ match_file(Patterns2(L_neg_important, P_important_log), P_important_log)

\* a returned file that an earlier pattern ignores and a later negation re-includes
C3_Witness ==
  /\ Returned
  /\ \E f \in Result : \E i \in Hits(spec, f) : spec[i].include

\* C4 (a sub-directory that cannot be opened): its subtree is left out, the
\* rest of the tree is returned, and a warning for that directory reaches
\* the caller.
C4_SubdirFailureReported ==
  Returned =>
    \A d \in unreadable \ {<<>>} :
      (Dirname(d) \in Range(visited) /\ ~DirIgnored(d)) =>
        /\ \A f \in Result : d \notin Ancestors(f)
        /\ Result = ExpectedReadable
        /\ \E i \in DOMAIN stderr : stderr[i].msg = "ScanWarning" /\ stderr[i].detail = d

\* C5 (the root cannot be enumerated): find_exportable_files does not return
\* a result, and the run ends as a failure.
C5_RootFailureFatal ==
  <<>> \in unreadable => (~Returned /\ (pc = "exit" => exit_code = 1))

IsAscending(seq) == \A i, j \in DOMAIN seq : i < j => ~StrLess(seq[j], seq[i])

\* C6 (sort order): the returned list holds the files found, in ascending
\* order of their path strings, whatever the order they were found in; the
\* claim's three paths sort to a.txt, a/b.txt, z.txt.
C6_SortOrder ==
  /\ Returned =>
       /\ IsAscending(files_to_export)
       /\ Len(files_to_export) = Len(exportable_files)
       /\ Result = Range(exportable_files)
  /\ pc = "read" => sorted(<<P_z_txt, P_a_b_txt, P_a_txt>>) = <<P_a_txt, P_a_b_txt, P_z_txt>>

\* the files were found in an order that is not the sorted one
C6_Witness ==
  /\ Returned
  /\ exportable_files = <<P_z_txt, P_a_txt, P_a_b_txt>>
  /\ files_to_export = <<P_a_txt, P_a_b_txt, P_z_txt>>

\* the output file lies below the project root
OutputInside ==
  InsideRoot(project_root_str, output_file_path_str) /\ project_root_str # output_file_path_str

\* the rule list read_gitignore_lines returns for the run's .gitignore
LinesRead == read_gitignore_lines(DefaultPatterns, gitignore).lines

\* C7 (the output file is excluded): an output file below the root adds its
\* relative path as the last pattern and is never among the returned paths;
\* an output file elsewhere adds no pattern.
C7_OutputExcluded ==
  pc \notin {"read", "ignore_output"} =>
    IF OutputInside
    THEN /\ gitignore_lines =
              Append(LinesRead, output_rel_path(project_root_str, output_file_path_str))
         /\ Returned => output_rel_path(project_root_str, output_file_path_str) \notin Result
    ELSE gitignore_lines = LinesRead

\* the lines of the rule list after the defaults
UserPart == SubSeq(gitignore_lines, Len(DefaultPatterns) + 1, Len(gitignore_lines))

\* C8 (assembly of the rule list): read_gitignore_lines returns the defaults
\* in their order, then the lines of the user's file in file order without
\* its blank and comment lines; only the defaults when the file is missing,
\* unreadable, empty or all comments; the default list itself never changes.
C8_RuleListAssembly ==
  /\ DEFAULT_IGNORE_PATTERNS = DefaultPatterns
  /\ pc = "ignore_output" =>
       /\ SubSeq(gitignore_lines, 1, Len(DefaultPatterns)) = DefaultPatterns
       /\ gitignore.state # "readable" => UserPart = <<>>
       /\ gitignore.content \in {<<>>, L_comment} => UserPart = <<>>
       /\ (gitignore.state = "readable" /\ gitignore.content = GitignoreOfTest) =>
            UserPart = <<L_star_log, L_build_dir>>
       /\ \A ls \in SeqUpTo(LinePool, MaxUserLines) :
            (gitignore.state = "readable" /\ gitignore.content = Join(ls, "\n")) =>
              UserPart = ls

\* a file with a comment, a blank line and two patterns has been read
C8_Witness ==
  /\ pc = "ignore_output"
  /\ gitignore.content = GitignoreOfTest
  /\ gitignore_lines = DefaultPatterns \o <<L_star_log, L_build_dir>>

\* a line the pattern compiler rejects: nothing but the negation mark
IsUnparseable(line) == Strip(line) = <<"!">>

Unparseable == {i \in DOMAIN gitignore_lines : IsUnparseable(gitignore_lines[i])}

\* C9 (a pattern that does not compile is fatal): once the rule list with
\* such a line has been compiled, the run has ended with exit code 1 and a
\* message naming the first such line; there is no rule set, no directory
\* has been enumerated and no output has been written.
C9_SyntaxErrorFatal ==
  (pc \notin {"read", "ignore_output", "compile"} /\ Unparseable # {}) =>
    /\ pc = "exit"
    /\ exit_code = 1
    /\ spec = <<>>
    /\ stack = <<>> /\ visited = <<>> /\ exportable_files = <<>> /\ files_to_export = <<>>
    /\ ~output_written
    /\ stderr[Len(stderr)] =
         Msg("Error parsing ignore patterns",
             gitignore_lines[CHOOSE i \in Unparseable : \A j \in Unparseable : i <= j])

\* a run has ended on a rule list with a line that does not compile
C9_Witness == pc = "exit" /\ Unparseable # {} /\ exit_code = 1

\* the name "logs"
N_logs == P_logs

\* C10 (directory-only patterns): with the line "logs/" in the rule list, no
\* directory named logs is enumerated and nothing below one is returned, at
\* any depth, while every file named logs in an enumerated directory is
\* returned.
C10_DirectoryOnly ==
  (Returned /\ L_logs_dir \in Range(gitignore_lines)) =>
    /\ \A d \in SubDirs :
         Basename(d) = N_logs =>
           /\ d \notin Range(visited)
           /\ \A f \in Result : d \notin Ancestors(f)
    /\ \A f \in tree :
         (Basename(f) = N_logs /\ Dirname(f) \in Range(visited)) => f \in Result

\* with "logs/" in the rule list, a directory named logs was passed over in
\* an enumerated directory and a file named logs was returned
C10_Witness ==
  /\ Returned
  /\ L_logs_dir \in Range(gitignore_lines)
  /\ \E d \in SubDirs : Basename(d) = N_logs /\ Dirname(d) \in Range(visited)
  /\ \E f \in Result : Basename(f) = N_logs

\* the path has a component named logs; its first component is named logs
HasLogs(path) == \E i \in DOMAIN Parts(path) : Parts(path)[i] = N_logs
LogsAtRoot(path) == Parts(path)[1] = N_logs

\* the run's .gitignore is the one line
UserLineIs(line) == gitignore = [state |-> "readable", content |-> line]

\* the rule set without the user's line (the first after the defaults)
OtherRules ==
  [i \in DOMAIN spec |->
     IF i = Len(DefaultPatterns) + 1 THEN NullPattern(spec[i].line) ELSE spec[i]]

\* the other rules leave the path and the directories above it alone, and
\* those directories and the root can be enumerated
ReachableOtherwise(path, is_dir) ==
  /\ ~match_file(OtherRules, IF is_dir THEN path \o <<"/">> ELSE path)
  /\ \A d \in Ancestors(path) : ~match_file(OtherRules, d \o <<"/">>)
  /\ (Ancestors(path) \cup {<<>>}) \cap unreadable = {}

Rules1(line) == from_lines(<<line>>).patterns

\* C11 (anchoring): with the line "/logs" the entry logs of the root is
\* ignored (a file is not returned, a directory is not enumerated and nothing
\* below it is returned) while a logs entry deeper in the tree, and what lies
\* below it, is enumerated and returned as far as the other rules allow and
\* the directories can be enumerated: the query is the path from the root, not from the
\* directory being walked. With the line "logs" an entry of that name is
\* ignored at every depth. The same for the claim's "/build" and "build".
C11_Anchoring ==
  /\ (Returned /\ UserLineIs(L_slash_logs)) =>
       /\ \A f \in tree : LogsAtRoot(f) => f \notin Result
       /\ N_logs \notin Range(visited)
       /\ \A f \in tree :
            (HasLogs(f) /\ ~LogsAtRoot(f) /\ ReachableOtherwise(f, FALSE)) => f \in Result
       /\ \A d \in SubDirs :
            (HasLogs(d) /\ ~LogsAtRoot(d) /\ ReachableOtherwise(d, TRUE) /\ d \notin unreadable)
              => d \in Range(visited)
  /\ (Returned /\ UserLineIs(N_logs)) =>
       /\ \A f \in tree : HasLogs(f) => f \notin Result
       /\ \A d \in SubDirs : HasLogs(d) => d \notin Range(visited)
  /\ pc = "read" =>
       /\ match_file(Rules1(L_slash_build), P_build)
       /\ match_file(Rules1(L_slash_build), P_build \o <<"/">>)
       /\ ~match_file(Rules1(L_slash_build), P_src_build)
       /\ ~match_file(Rules1(L_slash_build), P_src_build \o <<"/">>)
       /\ ~match_file(Rules1(L_slash_build), P_src_build_out)
       /\ match_file(Rules1(P_build), P_build)
       /\ match_file(Rules1(P_build), P_src_build)
       /\ match_file(Rules1(P_build), P_src_build \o <<"/">>)
       /\ match_file(Rules1(P_build), P_src_build_out)

\* with the line "/logs", the file logs of the root was left out and a file
\* below a deeper directory named logs was returned
C11_Witness ==
  /\ Returned
  /\ UserLineIs(L_slash_logs)
  /\ P_logs \in tree /\ P_logs \notin Result
  /\ P_a_logs_keep_txt \in Result

\* the texts written before the first file: the tree section, if any
TreeWrites == IF outfile # <<>> /\ outfile[1] = T_start_tree THEN 3 ELSE 0

\* the three texts written for the k-th path of files_to_export
BlockStart(k) == outfile[TreeWrites + 3 * k - 2]
BlockBody(k) == outfile[TreeWrites + 3 * k - 1]
BlockEnd(k) == outfile[TreeWrites + 3 * k]

IsPrefix(s, t) == Len(s) <= Len(t) /\ SubSeq(t, 1, Len(s)) = s

\* the paths the loop of write_export_file has dealt with
Scribed == 1..(next_file - 1)

\* those whose block holds the error line in place of the content
Failed == {k \in Scribed : IsPrefix(T_error_reading, BlockBody(k))}

\* C12 (the writer tolerates unreadable files): what has been written after
\* the tree section is one block for each path dealt with, in list order,
\* between its START FILE and END FILE lines, holding the file's content or,
\* for a file that cannot be read, a line beginning "Error reading file:";
\* file_count is the number of blocks with content; when write_export_file
\* returns every path of the list has its block; and the run fails after the
\* scan only when writing the output file fails.
C12_WriterTolerant ==
  /\ next_file - 1 <= Len(files_to_export)
  /\ Len(outfile) = TreeWrites + 3 * (next_file - 1)
  /\ \A k \in Scribed :
       /\ BlockStart(k) = T_start_file \o files_to_export[k] \o T_dashes
       /\ BlockEnd(k) = T_end_file \o files_to_export[k] \o T_dashes \o <<"\n">>
       /\ k \notin Failed => BlockBody(k) = FileContent(files_to_export[k])
  /\ file_count = Cardinality(Scribed \ Failed)
  /\ output_written => next_file - 1 = Len(files_to_export)
  /\ (pc = "exit" /\ next_file > 1 /\ ~output_written) =>
       /\ exit_code = 1
       /\ stderr[Len(stderr)].msg = "Scribing failed during file writing"

\* write_export_file has returned after a file that could not be read was
\* followed by one that could
C12_Witness ==
  /\ output_written
  /\ file_count < Len(files_to_export)
  /\ \E k, j \in Scribed : k < j /\ k \in Failed /\ j \notin Failed

\* C13 (idempotence, order independence): a later call of
\* find_exportable_files on the same tree with the same rule set returns the
\* list every earlier call returned, whatever the order in which the
\* directories listed their entries in either call.
C13_Idempotent ==
  Returned => \A c \in DOMAIN previous : previous[c].returned = files_to_export

\* two calls have returned, having found the files in different orders
C13_Witness ==
  /\ Returned
  /\ previous # <<>>
  /\ previous[1].found # exportable_files
  /\ Len(files_to_export) > 1

NoRepeats(seq) == \A i, j \in DOMAIN seq : i # j => seq[i] # seq[j]

\* the directories the claim C14 expects to be visited: the root and those
\* that are not ignored and have no ignored ancestor
VisitedAsStated ==
  {d \in AllDirs(tree) : \A a \in (Ancestors(d) \cup {d}) \ {<<>>} : ~DirIgnored(a)}

\* those of them that can be enumerated, as can the root and the
\* directories above them
VisitedEnumerable ==
  {d \in VisitedAsStated : (Ancestors(d) \cup {d, <<>>}) \cap unreadable = {}}

\* a path as passed to the matcher, without the slash that marks a directory
Unslashed(q) == IF q[Len(q)] = "/" THEN SubSeq(q, 1, Len(q) - 1) ELSE q

\* no directory is visited twice or is pending once visited; no directory
\* below an ignored one is visited, pending, or has an entry passed to the
\* matcher
SingleVisit ==
  /\ NoRepeats(visited \o stack)
  /\ \A d \in Range(visited) \cup Range(stack) \cup {Unslashed(q) : q \in queried} :
       \A a \in Ancestors(d) : ~DirIgnored(a)
  /\ Range(visited) \subseteq VisitedAsStated

\* C14 as stated: when the walk is over the visited directories are exactly
\* the root and the directories that are not ignored and have no ignored
\* ancestor.
C14_VisitedAsStated == Returned => Range(visited) = VisitedAsStated

\* C14 (termination, single visit), amended: the walk comes to its end; no
\* directory is visited more than once; nothing below an ignored directory is
\* enumerated or passed to the matcher; and when the walk is over the visited
\* directories are exactly the root and the directories that are not ignored
\* and have no ignored ancestor, as far as they, the root and the directories
\* above them can be enumerated.
C14_TerminatesSingleVisit ==
  /\ [](SingleVisit /\ (Returned => Range(visited) = VisitedEnumerable))
  /\ (pc = "scan" ~> pc = "found")

\* the walk is over: it passed an ignored directory and visited another
\* directory next to it
C14_Witness ==
  /\ Returned
  /\ \E d \in SubDirs : DirIgnored(d) /\ Dirname(d) \in Range(visited)
  /\ \E d \in Range(visited) : d # <<>>

====
